---- MODULE Spec2Model ----
(***************************************************************************)
(* Model of src/main.py: SmartHomeApp (device registry, current device,    *)
(* action counter, the two button slots) and the AnimatedLabel / QTimer    *)
(* callbacks the slots schedule.                                           *)
(*                                                                         *)
(* Python strings that the code parses or builds are sequences of          *)
(* one-character strings; dictionary keys stay atomic strings.  The dict   *)
(* self.devices is an ordered sequence of <<key, value>> pairs, as Python  *)
(* dictionaries keep insertion order.                                      *)
(***************************************************************************)
EXTENDS Integers, Sequences, FiniteSets, TLC

VARIABLES devices,        \* self.devices
          current_device, \* self.current_device
          action_count,   \* self.action_count
          status_label,   \* text of self.status_label
          device_label,   \* text of self.device_label
          stats_label,    \* text of self.stats_label
          finished,       \* slots connected to fadeAnimation.finished
          fadeRunning,    \* fadeAnimation is running
          singleShots,    \* pending QTimer.singleShot(150, ...) callbacks
          pulseTimer,     \* pulseTimer is active
          pulseStops,     \* pending QTimer.singleShot(500, pulseTimer.stop)
          styleSheet,     \* border width in the status label's style sheet
          calls,          \* history: number of slot invocations so far
          hist            \* history: the last slot invocations

core == <<devices, current_device, action_count>>
view == <<status_label, device_label, stats_label, finished, fadeRunning,
          singleShots, pulseTimer, pulseStops, styleSheet>>
vars == <<devices, current_device, action_count, status_label, device_label,
          stats_label, finished, fadeRunning, singleShots, pulseTimer,
          pulseStops, styleSheet, calls, hist>>

\* ---- bounds ----
MaxActions == 25     \* slot invocations explored
MaxShots == 2        \* pending 150 ms single-shots
MaxFinished == 2     \* slots connected to finished at once
MaxStops == 1        \* pending pulseTimer.stop single-shots
HistLen == 3         \* slot invocations remembered in hist

\* ---- string literals of the source ----
LivingRoomLight == "Living Room Light"
Thermostat == "Thermostat"
SecuritySystem == "Security System"
Off == <<"O", "f", "f">>
On == <<"O", "n">>
Disarmed == <<"D", "i", "s", "a", "r", "m", "e", "d">>
DegC == <<"°", "C">>
Digits == <<"0", "1", "2", "3", "4", "5", "6", "7", "8", "9">>

\* ---- Python built-ins used by the slots ----
\* dict.keys() as a list, in insertion order
keys(d) == [i \in 1..Len(d) |-> d[i][1]]

\* list.index(x): 1-based position of the first x, 0 where Python raises
index(l, x) ==
  IF \E i \in 1..Len(l) : l[i] = x
  THEN CHOOSE i \in 1..Len(l) : l[i] = x /\ \A j \in 1..(i - 1) : l[j] # x
  ELSE 0

\* k in d
haskey(d, k) == index(keys(d), k) # 0

\* d[k]
getitem(d, k) == d[index(keys(d), k)][2]

\* mutant: the key is deleted and inserted again, which moves it to the end
setitemReinserts(d, k, v) ==
  Append(SelectSeq(d, LAMBDA e : e[1] # k), <<k, v>>)

\* d[k] = v : an existing key keeps its position, a new key is appended
setitem(d, k, v) ==
  IF index(keys(d), k) = 0
  THEN Append(d, <<k, v>>)
  ELSE [d EXCEPT ![index(keys(d), k)] = <<k, v>>]

\* s starts with the non-empty string old
startswith(s, old) == Len(s) >= Len(old) /\ SubSeq(s, 1, Len(old)) = old

RECURSIVE replace(_, _, _)
\* str.replace(old, new): every non-overlapping occurrence, left to right
replace(s, old, new) ==
  IF s = <<>> THEN <<>>
  ELSE IF startswith(s, old)
       THEN new \o replace(SubSeq(s, Len(old) + 1, Len(s)), old, new)
       ELSE <<s[1]>> \o replace(Tail(s), old, new)

digitValue(c) == index(Digits, c) - 1

\* the string is a non-empty run of decimal digits
isdecimal(s) == s # <<>> /\ \A i \in 1..Len(s) : index(Digits, s[i]) # 0

RECURSIVE int(_)
\* int(s) for a string of decimal digits
int(s) ==
  IF Len(s) = 1 THEN digitValue(s[1])
  ELSE 10 * int(SubSeq(s, 1, Len(s) - 1)) + digitValue(s[Len(s)])

RECURSIVE str(_)
\* f"{n}" for a non-negative integer
str(n) == IF n < 10 THEN <<Digits[n + 1]>> ELSE str(n \div 10) \o <<Digits[(n % 10) + 1]>>

\* ---- SmartHomeApp.__init__ and setupUI ----
InitialDevices ==
  << <<LivingRoomLight, Off>>,
     <<Thermostat, str(22) \o DegC>>,
     <<SecuritySystem, Disarmed>> >>

InitialDevice == LivingRoomLight

\* mutant: the value is read from the dictionary as it was at construction
statusTextInitialValue(d, cur) == <<cur, ":", " ">> \o getitem(InitialDevices, cur)

\* f"{self.current_device}: {self.devices[self.current_device]}"
statusText(d, cur) == <<cur, ":", " ">> \o getitem(d, cur)

\* f"Current Device: {device}"
deviceText(device) == <<"Current Device: ", device>>

\* f"Actions performed: {self.action_count}"
statsText(n) == <<"Actions performed: ">> \o str(n)

Init ==
  /\ devices = InitialDevices
  /\ current_device = InitialDevice
  /\ action_count = 0
  /\ status_label = statusText(InitialDevices, InitialDevice)
  /\ device_label = deviceText(InitialDevice)
  /\ stats_label = statsText(0)
  /\ finished = <<>>
  /\ fadeRunning = FALSE
  /\ singleShots = 0
  /\ pulseTimer = FALSE
  /\ pulseStops = 0
  /\ styleSheet = 2
  /\ calls = 0
  /\ hist = <<>>

\* ---- the slots ----
\* mutant: the index is clamped at the last device instead of wrapping
nextDeviceClamps(d, cur) ==
  keys(d)[IF index(keys(d), cur) < Len(keys(d)) THEN index(keys(d), cur) + 1
          ELSE Len(keys(d))]

\* mutant: the device list is written out again, with one name shortened
nextDeviceOwnList(d, cur) ==
  LET device_list == <<LivingRoomLight, Thermostat, "Security">>
  IN device_list[((index(device_list, cur) - 1 + 1) % Len(device_list)) + 1]

\* mutant: the index is not advanced
nextDeviceStays(d, cur) == keys(d)[((index(keys(d), cur) - 1) % Len(keys(d))) + 1]

\* device_list[(current_index + 1) % len(device_list)]
nextDevice(d, cur) ==
  keys(d)[((index(keys(d), cur) - 1 + 1) % Len(keys(d))) + 1]

\* mutant: the light is only ever switched on
flipOnlyOn(v) == IF v = Off THEN On ELSE On

\* "On" if self.devices["Living Room Light"] == "Off" else "Off"
flip(v) == IF v = Off THEN On ELSE Off

\* mutant: the temperature is clamped at 30 instead of cycling
newTempClamps(current_temp) ==
  IF current_temp < 30 THEN current_temp + 1 ELSE 30

\* (current_temp + 1) % 30 if current_temp < 30 else 20
newTemp(current_temp) ==
  IF current_temp < 30 THEN (current_temp + 1) % 30 ELSE 20

\* mutant: the thermostat is adjusted wherever the cursor landed
thermostatDevicesAlways(d, cur) ==
  setitem(d, Thermostat,
          str(newTemp(int(replace(getitem(d, Thermostat), DegC, <<>>)))) \o DegC)

\* lines 265-269: adjust the thermostat if the current device is the thermostat
thermostatDevices(d, cur) ==
  IF cur = Thermostat
  THEN setitem(d, Thermostat,
               str(newTemp(int(replace(getitem(d, Thermostat), DegC, <<>>)))) \o DegC)
  ELSE d

\* mutant: a toggle that lands on the thermostat adjusts the thermostat
lightDevicesOrThermostat(d, cur) ==
  IF cur = LivingRoomLight
  THEN setitem(d, LivingRoomLight, flip(getitem(d, LivingRoomLight)))
  ELSE thermostatDevices(d, cur)

\* mutant: the toggle is applied to whichever device is current
lightDevicesFlipsCurrent(d, cur) == setitem(d, cur, flip(getitem(d, cur)))

\* lines 245-247: toggle the light if the current device is the light
lightDevices(d, cur) ==
  IF cur = LivingRoomLight
  THEN setitem(d, LivingRoomLight, flip(getitem(d, LivingRoomLight)))
  ELSE d

\* mutant: the counter wraps with the cursor
nextCountWraps(n) == (n + 1) % 3

\* self.action_count += 1
nextCount(n) == n + 1

\* AnimatedLabel.animateTextChange
animateTextChange(new_text) ==
  /\ finished' = Append(finished, new_text)
  /\ fadeRunning' = TRUE

\* history of the slot invocations
record(op) ==
  /\ calls' = calls + 1
  /\ hist' = LET h == Append(hist, [op |-> op, before |-> devices, from |-> current_device])
             IN IF Len(h) > HistLen THEN Tail(h) ELSE h

\* what bounds the exploration of a slot
mayAct ==
  /\ calls < MaxActions
  /\ singleShots < MaxShots
  /\ Len(finished) < MaxFinished
  /\ haskey(devices, current_device)  \* list.index raises ValueError otherwise

toggleLight ==
  /\ mayAct
  /\ current_device' = nextDevice(devices, current_device)
  /\ devices' = lightDevices(devices, current_device')
  /\ action_count' = nextCount(action_count)
  /\ IF haskey(devices', current_device')
     THEN /\ animateTextChange(statusText(devices', current_device'))
          /\ singleShots' = singleShots + 1
     ELSE UNCHANGED <<finished, fadeRunning, singleShots>>  \* KeyError
  /\ record("toggleLight")
  /\ UNCHANGED <<status_label, device_label, stats_label, pulseTimer, pulseStops, styleSheet>>

setThermostat ==
  /\ mayAct
  /\ current_device' = nextDevice(devices, current_device)
  /\ devices' = thermostatDevices(devices, current_device')
  /\ action_count' = nextCount(action_count)
  /\ IF haskey(devices', current_device')
     THEN /\ animateTextChange(statusText(devices', current_device'))
          /\ singleShots' = singleShots + 1
     ELSE UNCHANGED <<finished, fadeRunning, singleShots>>  \* KeyError
  /\ record("setThermostat")
  /\ UNCHANGED <<status_label, device_label, stats_label, pulseTimer, pulseStops, styleSheet>>

\* ---- deferred callbacks ----
\* mutant: the callback counts itself as an action
updateInfoLabelsCounts ==
  /\ singleShots > 0
  /\ singleShots' = singleShots - 1
  /\ action_count' = action_count + 1
  /\ device_label' = deviceText(current_device)
  /\ stats_label' = statsText(action_count')
  /\ UNCHANGED <<devices, current_device, status_label, finished, fadeRunning,
                 pulseTimer, pulseStops, styleSheet, calls, hist>>

\* mutant: the callback forgets the statistics label
updateInfoLabelsDeviceOnly ==
  /\ singleShots > 0
  /\ singleShots' = singleShots - 1
  /\ device_label' = deviceText(current_device)
  /\ UNCHANGED <<core, stats_label, status_label, finished, fadeRunning,
                 pulseTimer, pulseStops, styleSheet, calls, hist>>

\* the 150 ms single-shot: lambda: self.updateInfoLabels(self.current_device)
updateInfoLabels ==
  /\ singleShots > 0
  /\ singleShots' = singleShots - 1
  /\ device_label' = deviceText(current_device)
  /\ stats_label' = statsText(action_count)
  /\ UNCHANGED <<core, status_label, finished, fadeRunning, pulseTimer,
                 pulseStops, styleSheet, calls, hist>>

\* fadeAnimation.finished with a slot connected: the first connected lambda
\* runs changeTextAndFadeIn, whose disconnect() drops the others
changeTextAndFadeIn ==
  /\ fadeRunning
  /\ finished # <<>>
  /\ pulseStops < MaxStops
  /\ status_label' = Head(finished)
  /\ finished' = <<>>
  /\ fadeRunning' = TRUE
  /\ pulseTimer' = TRUE
  /\ pulseStops' = pulseStops + 1
  /\ UNCHANGED <<core, device_label, stats_label, singleShots, styleSheet, calls, hist>>

\* fadeAnimation.finished with nothing connected (end of the fade-in)
fadeInFinished ==
  /\ fadeRunning
  /\ finished = <<>>
  /\ fadeRunning' = FALSE
  /\ UNCHANGED <<core, status_label, device_label, stats_label, finished,
                 singleShots, pulseTimer, pulseStops, styleSheet, calls, hist>>

\* pulseTimer.timeout
pulseEffect ==
  /\ pulseTimer
  /\ styleSheet' = IF styleSheet = 3 THEN 2 ELSE 3
  /\ UNCHANGED <<core, status_label, device_label, stats_label, finished,
                 fadeRunning, singleShots, pulseTimer, pulseStops, calls, hist>>

\* QTimer.singleShot(500, self.pulseTimer.stop)
pulseTimerStop ==
  /\ pulseStops > 0
  /\ pulseStops' = pulseStops - 1
  /\ pulseTimer' = FALSE
  /\ UNCHANGED <<core, status_label, device_label, stats_label, finished,
                 fadeRunning, singleShots, styleSheet, calls, hist>>

Next ==
  \/ toggleLight
  \/ setThermostat
  \/ updateInfoLabels
  \/ changeTextAndFadeIn
  \/ fadeInFinished
  \/ pulseEffect
  \/ pulseTimerStop

Spec == Init /\ [][Next]_vars

\* ---- the same slots over a dictionary with a single entry ----
\* __init__ and setupUI with self.devices holding one of the three devices
InitSingle ==
  /\ \E i \in 1..Len(InitialDevices) :
       /\ devices = <<InitialDevices[i]>>
       /\ current_device = InitialDevices[i][1]
  /\ action_count = 0
  /\ status_label = statusText(devices, current_device)
  /\ device_label = deviceText(current_device)
  /\ stats_label = statsText(0)
  /\ finished = <<>>
  /\ fadeRunning = FALSE
  /\ singleShots = 0
  /\ pulseTimer = FALSE
  /\ pulseStops = 0
  /\ styleSheet = 2
  /\ calls = 0
  /\ hist = <<>>

SpecSingle == InitSingle /\ [][Next]_vars

\* ---- readings of the state used by the properties ----
Registry == <<LivingRoomLight, Thermostat, SecuritySystem>>
light(d) == getitem(d, LivingRoomLight)
temp(d) == int(replace(getitem(d, Thermostat), DegC, <<>>))
security(d) == getitem(d, SecuritySystem)
target(op) == IF op = "toggleLight" THEN LivingRoomLight ELSE Thermostat
acted == hist # <<>>
last == hist[Len(hist)]
\* devices and cursor right after the i-th remembered invocation
after(i) == IF i = Len(hist) THEN devices ELSE hist[i + 1].before
landed(i) == IF i = Len(hist) THEN current_device ELSE hist[i + 1].from
lastOnTarget == acted /\ current_device = target(last.op)

\* C1: the Thermostat value is always an integer in the range 20..30.
C1_ThermostatIn20To30 ==
  /\ isdecimal(replace(getitem(devices, Thermostat), DegC, <<>>))
  /\ temp(devices) \in 20..30

\* C2: each thermostat mutation maps t to t+1 when t < 30 and 30 to 20.
C2_ThermostatStepsTo30ThenWraps ==
  (acted /\ last.op = "setThermostat" /\ current_device = Thermostat)
    => temp(devices) = (IF temp(last.before) < 30 THEN temp(last.before) + 1 ELSE 20)

\* C3 as stated: a toggleLight that advances the cursor from Living Room
\* Light onto the Thermostat changes the Thermostat's value.
C3_ToggleLightMutatesThermostat ==
  (acted /\ last.op = "toggleLight" /\ last.from = LivingRoomLight
         /\ current_device = Thermostat)
    => getitem(devices, Thermostat) # getitem(last.before, Thermostat)

\* C3 amended: a toggleLight never changes the Thermostat's value; when it
\* advances the cursor onto the Thermostat no device value changes at all.
C3_ToggleLightKeepsThermostat ==
  (acted /\ last.op = "toggleLight")
    => /\ getitem(devices, Thermostat) = getitem(last.before, Thermostat)
       /\ (current_device = Thermostat => devices = last.before)

C3_Witness ==
  /\ acted /\ last.op = "toggleLight"
  /\ last.from = LivingRoomLight /\ current_device = Thermostat
  /\ temp(devices) > 22

\* C4: an action changes a device value if and only if the device the cursor
\* lands on is the action's target; otherwise all values are unchanged.
C4_MutationIffLandedOnTarget ==
  acted => ((devices # last.before) <=> (current_device = target(last.op)))

C4_Witness ==
  /\ Len(hist) >= 2
  /\ lastOnTarget /\ devices # last.before
  /\ landed(Len(hist) - 1) # target(hist[Len(hist) - 1].op)
  /\ after(Len(hist) - 1) = hist[Len(hist) - 1].before
  /\ last.op = "setThermostat"

\* C5: after N actions the cursor is at index N mod 3 of the registry
\* [Living Room Light, Thermostat, Security System].
C5_CursorIsCallsMod3 ==
  /\ index(keys(devices), current_device) # 0
  /\ index(keys(devices), current_device) - 1 = calls % 3
  /\ current_device = Registry[(calls % 3) + 1]

C5_Witness ==
  /\ calls = 7 /\ current_device = Thermostat
  /\ \E i, j \in 1..Len(hist) : hist[i].op # hist[j].op

\* C6: after N actions the action counter equals N.
C6_CounterIsCalls == action_count = calls

C6_Witness ==
  /\ calls >= 3 /\ acted
  /\ devices = last.before
  /\ \E i \in 1..Len(hist) : after(i) # hist[i].before

\* C7: the light is always Off or On, a toggleLight landing on Living Room
\* Light flips it, and nothing else changes it.
C7_LightAlternates ==
  /\ light(devices) \in {Off, On}
  /\ acted =>
       IF last.op = "toggleLight" /\ current_device = LivingRoomLight
       THEN /\ light(last.before) = Off => light(devices) = On
            /\ light(last.before) = On => light(devices) = Off
       ELSE light(devices) = light(last.before)

C7_Witness ==
  /\ acted /\ last.op = "toggleLight" /\ current_device = LivingRoomLight
  /\ light(last.before) = On /\ light(devices) = Off

\* the last three invocations were all toggleLight
threeToggles ==
  /\ Len(hist) >= 3
  /\ \A i \in (Len(hist) - 2)..Len(hist) : hist[i].op = "toggleLight"

\* C8: three consecutive toggleLight actions flip the light exactly once and
\* leave Thermostat and Security System unchanged; from the initial state the
\* calls land on Thermostat, Security System, Living Room Light in turn and
\* only the third mutates.
C8_ThreeTogglesFlipOnce ==
  threeToggles =>
    LET n == Len(hist) IN
    /\ Cardinality({i \in (n - 2)..n : light(after(i)) # light(hist[i].before)}) = 1
    /\ light(devices) # light(hist[n - 2].before)
    /\ temp(devices) = temp(hist[n - 2].before)
    /\ getitem(devices, Thermostat) = getitem(hist[n - 2].before, Thermostat)
    /\ security(devices) = security(hist[n - 2].before)
    /\ calls = 3 =>
         /\ landed(n - 2) = Thermostat /\ after(n - 2) = InitialDevices
         /\ landed(n - 1) = SecuritySystem /\ after(n - 1) = InitialDevices
         /\ landed(n) = LivingRoomLight /\ light(devices) = On

C8_Witness ==
  /\ threeToggles /\ calls > 3
  /\ hist[Len(hist) - 2].from = Thermostat
  /\ temp(devices) # 22

\* C9: the registry is always [Living Room Light, Thermostat, Security
\* System]: unique names, never empty, same order.
C9_RegistryFixed ==
  /\ keys(devices) = Registry
  /\ Len(devices) > 0
  /\ \A i, j \in 1..Len(devices) : devices[i][1] = devices[j][1] => i = j

C9_Witness ==
  /\ light(devices) = On
  /\ temp(devices) # 22
  /\ calls >= 6

\* C10: current_device always names exactly one device of the registry, so
\* the index lookup and the value lookup never fail.
C10_CurrentDeviceInRegistry ==
  /\ Cardinality({i \in 1..Len(devices) : devices[i][1] = current_device}) = 1
  /\ index(keys(devices), current_device) \in 1..Len(devices)
  /\ getitem(devices, current_device) = devices[index(keys(devices), current_device)][2]

C10_Witness ==
  /\ calls >= 3
  /\ current_device = SecuritySystem
  /\ status_label = statusText(devices, SecuritySystem)

\* C11: an action changes the value of at most one device, the one the cursor
\* points at after advancing; every other value is unchanged, and the
\* Security System value is "Disarmed" in every reachable state.
C11_OnlyCurrentDeviceChanges ==
  /\ security(devices) = Disarmed
  /\ acted =>
       /\ Len(devices) = Len(last.before)
       /\ \A i \in 1..Len(devices) :
            devices[i] # last.before[i] => devices[i][1] = current_device
       /\ Cardinality({i \in 1..Len(devices) : devices[i] # last.before[i]}) <= 1

C11_Witness ==
  /\ acted /\ calls >= 6
  /\ current_device = Thermostat
  /\ getitem(devices, Thermostat) # getitem(last.before, Thermostat)
  /\ light(devices) = On /\ light(last.before) = On

\* the text the latest slot invocation handed to animateTextChange
handed == finished'[Len(finished')]

\* C12: the status text an action hands to the view is "<name>: <value>" of
\* the post-advance device and its post-mutation value, and the counter is
\* already incremented at that point.
C12_StatusTextIsPostAction ==
  [][calls' # calls =>
       /\ Len(finished') = Len(finished) + 1
       /\ handed[1] = Registry[(calls' % 3) + 1]
       /\ handed[1] = current_device' /\ handed[1] # current_device
       /\ SubSeq(handed, 2, 3) = <<":", " ">>
       /\ SubSeq(handed, 4, Len(handed)) = getitem(devices', current_device')
       /\ (devices' # devices =>
             SubSeq(handed, 4, Len(handed)) # getitem(devices, current_device'))
       /\ action_count' = calls']_vars

C12_Witness ==
  /\ acted /\ finished # <<>>
  /\ finished[Len(finished)] = <<Thermostat, ":", " ", "2", "4", "°", "C">>
  /\ current_device = Thermostat
  /\ temp(last.before) = 23
  /\ action_count = 4

\* C13: the deferred callbacks (updateInfoLabels, changeTextAndFadeIn and the
\* end of the fade, pulseEffect, pulseTimer.stop) leave devices,
\* current_device and action_count unchanged, however they interleave with
\* the actions.
C13_CallbacksKeepCore ==
  [][calls' = calls =>
       /\ devices' = devices
       /\ current_device' = current_device
       /\ action_count' = action_count]_vars

C13_Witness ==
  /\ calls >= 2
  /\ stats_label = statsText(calls) /\ singleShots = 1
  /\ status_label # statusText(InitialDevices, InitialDevice)
  /\ styleSheet = 3
  /\ finished # <<>>

\* the number shown in the statistics label
shown == int(Tail(stats_label))

\* C15: the number in the statistics label never exceeds action_count and
\* never decreases, and once no 150 ms callback is pending the device label
\* names current_device and the statistics label shows action_count.
C15_InfoLabelsCatchUp ==
  [][/\ shown <= action_count /\ shown' <= action_count'
     /\ shown <= shown'
     /\ singleShots' < singleShots =>
          /\ device_label' = <<"Current Device: ", current_device>>
          /\ shown' = action_count
     /\ singleShots' = 0 =>
          /\ device_label' = <<"Current Device: ", current_device'>>
          /\ isdecimal(Tail(stats_label')) /\ shown' = action_count']_vars

\* the last of two pending callbacks has just caught up with two actions
C15_Witness ==
  /\ singleShots = 0 /\ calls >= 2
  /\ shown = action_count
  /\ device_label = deviceText(current_device)
  /\ finished # <<>> /\ Len(finished) = 2

\* C14: with exactly one device in the registry every action leaves the
\* cursor on it, and an action changes its value on every call exactly when
\* that device is the action's target.
C14_SingleDeviceStays ==
  /\ Len(devices) = 1
  /\ current_device = devices[1][1]
  /\ acted =>
       /\ last.from = current_device
       /\ (devices # last.before) <=> (current_device = target(last.op))

C14_Witness ==
  /\ Len(hist) >= 2
  /\ current_device = Thermostat
  /\ last.op = "setThermostat" /\ hist[Len(hist) - 1].op = "toggleLight"
  /\ temp(devices) = 0 /\ temp(last.before) = 29
  /\ hist[Len(hist) - 1].before = last.before

\* C16: once no finished-handler is pending, the status label shows
\* "<current_device>: <value of current_device>" of the latest action.
C16_StatusLabelShowsLatest ==
  finished = <<>> => status_label = statusText(devices, current_device)
====
